---- MODULE Spec2Model ----
(***************************************************************************)
(* Model of scripts/build_bundles.py: the OPML validator                   *)
(* (OPMLValidator.validate_opml), the bundle merger (BundleBuilder) and    *)
(* the driver (main).                                                      *)
(*                                                                         *)
(* An XML element is a record [tag, type, version, text, kids]: its tag,   *)
(* the values of its type and version attributes ("" when it has none),    *)
(* its text (which tells entries apart) and the sequence of its children.  *)
(* A file is a record [wf, space, root]: whether its bytes are well-formed *)
(* XML, how it is laid out ("src" as authored, "4sp" as ET.indent lays a   *)
(* tree out) and the element tree ET.parse reads from it.  The file system *)
(* is a function from the paths that exist to files; a path is a sequence  *)
(* of components relative to base_dir.                                     *)
(***************************************************************************)
EXTENDS Integers, Sequences, FiniteSets, TLC

VARIABLES
    fs,        \* the file system under base_dir
    bundles,   \* bundles/: <<>> when the directory is missing, else <<configs>>
    args,      \* the command line: [validate_only, build_only]
    pc,        \* where the driver (or the harness) is
    opml_files,\* main: the documents globbed at the repository root
    idx,       \* main / build_all_bundles: loop index
    all_valid, \* main: all_valid
    success,   \* build_all_bundles: success
    validated, \* history: the results of validate_opml, in call order
    built,     \* history: the calls of build_bundle, in call order
    exit       \* main's return value, <<>> while it runs

vars == <<fs, bundles, args, pc, opml_files, idx, all_valid, success,
          validated, built, exit>>

-----------------------------------------------------------------------------
(* Bounds *)

MaxEntries == 2

MaxSources == 2

MaxBundles == 2

MaxRuns == 2

-----------------------------------------------------------------------------
(* XML elements *)

Elem(tag, type, text, kids) ==
    [tag |-> tag, type |-> type, version |-> "", text |-> text, kids |-> kids]

Feed(text) == Elem("outline", "rss", text, <<>>)

Link(text) == Elem("outline", "link", text, <<>>)

Group(text, kids) == Elem("outline", "", text, kids)

Title(text) == Elem("title", "", text, <<>>)

HeadElem(kids) == Elem("head", "", "", kids)

BodyElem(kids) == Elem("body", "", "", kids)

SeqsUpTo(S, n) == UNION {[1..k -> S] : k \in 0..n}

\* ET.parse / tree.write: a file as authored, and a file as build_bundle writes it
SourceFile(root) == [wf |-> TRUE, space |-> "src", root |-> root]

Malformed == [wf |-> FALSE, space |-> "src", root |-> Elem("", "", "", <<>>)]

\* root.find(tag): the first direct child with that tag, <<>> for None
RECURSIVE FindIn(_, _)
FindIn(kids, tag) ==
    IF kids = <<>> THEN <<>>
    ELSE IF kids[1].tag = tag THEN <<kids[1]>>
    ELSE FindIn(Tail(kids), tag)

find(e, tag) == FindIn(e.kids, tag)

\* len(e.findall(".//outline[@type='rss']")): the descendants of e, at any
\* depth and e itself excluded, that are outline elements with type="rss"
IsRssOutline(e) == e.tag = "outline" /\ e.type = "rss"

RECURSIVE count_rss(_)
RECURSIVE CountRssIn(_)
CountRssIn(kids) ==
    IF kids = <<>> THEN 0
    ELSE (IF IsRssOutline(kids[1]) THEN 1 ELSE 0)
         + count_rss(kids[1]) + CountRssIn(Tail(kids))

count_rss(e) == CountRssIn(e.kids)

-----------------------------------------------------------------------------
(* OPMLValidator.validate_opml *)

Result(valid, msg, printed) == [valid |-> valid, msg |-> msg, printed |-> printed]

MsgRoot(tag) == <<"Root element is '", tag, "', expected 'opml'">>

MsgHead == <<"Missing required <head> element">>

MsgBody == <<"Missing required <body> element">>

MsgNoFeeds == <<"No RSS feeds found in file">>

MsgParse == <<"XML parsing error: ", "not well-formed">>

MsgUnexpected == <<"Unexpected error: ", "No such file or directory">>

\* the count validate_opml tests and prints: searched from the root element
rss_count(root) == count_rss(root)

\* (mutation of validate_root: the body check left out)
validate_root_no_body_check(root) ==
    IF root.tag # "opml" THEN Result(FALSE, MsgRoot(root.tag), <<>>)
    ELSE IF find(root, "head") = <<>> THEN Result(FALSE, MsgHead, <<>>)
    ELSE IF rss_count(root) = 0 THEN Result(FALSE, MsgNoFeeds, <<>>)
    ELSE Result(TRUE, <<>>, <<rss_count(root)>>)

\* the checks of validate_opml on a parsed tree, in the order of the code
validate_root(root) ==
    IF root.tag # "opml" THEN Result(FALSE, MsgRoot(root.tag), <<>>)
    ELSE IF find(root, "head") = <<>> THEN Result(FALSE, MsgHead, <<>>)
    ELSE IF find(root, "body") = <<>> THEN Result(FALSE, MsgBody, <<>>)
    ELSE IF rss_count(root) = 0 THEN Result(FALSE, MsgNoFeeds, <<>>)
    ELSE Result(TRUE, <<>>, <<rss_count(root)>>)

\* validate_opml(file_path): printed is the feed count it reports, if any
validate_opml(files, p) ==
    IF p \notin DOMAIN files THEN Result(FALSE, MsgUnexpected, <<>>)
    ELSE IF ~files[p].wf THEN Result(FALSE, MsgParse, <<>>)
    ELSE validate_root(files[p].root)

-----------------------------------------------------------------------------
(* Documents the validator is run on *)

Groups == {Group("g", <<>>)} \cup {Group("g", <<l>>) : l \in {Feed("a"), Link("c")}}
          \cup {Group("g", <<Group("h", <<Feed("b")>>)>>)}

Entries == {Feed("a"), Link("c"), Elem("item", "rss", "d", <<>>)} \cup Groups

Heads == {<<>>, <<HeadElem(<<Title("t")>>)>>, <<HeadElem(<<Title("t"), Feed("x")>>)>>}

Bodies == {<<>>} \cup {<<BodyElem(es)>> : es \in SeqsUpTo(Entries, MaxEntries)}

Extras == {<<>>, <<Feed("y")>>, <<BodyElem(<<Feed("z")>>)>>}

RootTags == {"opml", "rss"}

Docs == {Elem(t, "", "", h \o b \o x) :
            t \in RootTags, h \in Heads, b \in Bodies, x \in Extras}

PathA == <<"a.opml.xml">>

ValidatorFileSystems ==
    {<< >>} \cup {(PathA :> Malformed)} \cup {(PathA :> SourceFile(d)) : d \in Docs}

InitValidate ==
    /\ fs \in ValidatorFileSystems
    /\ bundles = <<>>
    /\ args = [validate_only |-> TRUE, build_only |-> FALSE]
    /\ pc = "validate"
    /\ opml_files = <<PathA>>
    /\ idx = 1
    /\ all_valid = TRUE
    /\ success = TRUE
    /\ validated = <<>>
    /\ built = <<>>
    /\ exit = <<>>

\* one call validate_opml(a.opml.xml)
CallValidate ==
    /\ pc = "validate"
    /\ validated' = Append(validated, validate_opml(fs, PathA))
    /\ pc' = "validated"
    /\ UNCHANGED <<fs, bundles, args, opml_files, idx, all_valid, success, built, exit>>

NextValidate == CallValidate

SpecValidate == InitValidate /\ [][NextValidate]_vars

-----------------------------------------------------------------------------
(* BundleBuilder *)

PathB == <<"b.opml.xml">>

OutputDir == <<"dist">>

\* pathlib's a / b followed by the file system's resolution of "..":
\* base_dir / "dist" / "../a.opml.xml" is the file base_dir / "a.opml.xml"
RECURSIVE Resolve(_, _)
Resolve(done, rest) ==
    IF rest = <<>> THEN done
    ELSE IF rest[1] = ".." /\ done # <<>>
         THEN Resolve(SubSeq(done, 1, Len(done) - 1), Tail(rest))
    ELSE Resolve(Append(done, rest[1]), Tail(rest))

SourcePath(source_file) == Resolve(<<>>, source_file)

OutputPath(output_file) == Resolve(OutputDir, output_file)

\* the directories that exist once output_dir.mkdir(exist_ok=True) has run
Directories == {<<>>, OutputDir}

\* open(output_path, "wb") succeeds when the file's directory exists
CanWrite(path) == path # <<>> /\ SubSeq(path, 1, Len(path) - 1) \in Directories

\* config.get(key, default)
Get(config, key, default) == IF key \in DOMAIN config THEN config[key] ELSE default

\* (mutation of AppendAll: body.insert(0, outline))
RECURSIVE InsertAllFirst(_, _)
InsertAllFirst(body, outlines) ==
    IF outlines = <<>> THEN body
    ELSE InsertAllFirst(<<outlines[1]>> \o body, Tail(outlines))

\* for outline in source_body: body.append(outline)
RECURSIVE AppendAll(_, _)
AppendAll(body, outlines) ==
    IF outlines = <<>> THEN body
    ELSE AppendAll(Append(body, outlines[1]), Tail(outlines))

\* one iteration of the loop over source_files: the merged body's children after it
ProcessSource(files, body, source_file) ==
    LET source_path == SourcePath(source_file) IN
    IF source_path \notin DOMAIN files THEN body          \* warning, continue
    ELSE IF ~files[source_path].wf THEN body              \* ET.parse raises, caught
    ELSE LET source_body == find(files[source_path].root, "body") IN
         IF source_body = <<>> THEN body
         ELSE AppendAll(body, source_body[1].kids)

RECURSIVE MergeLoop(_, _, _)
MergeLoop(files, body, source_files) ==
    IF source_files = <<>> THEN body
    ELSE MergeLoop(files, ProcessSource(files, body, source_files[1]), Tail(source_files))

\* (mutation of merge_opml_files: the description written into the head)
merge_opml_files_described(files, source_files, bundle_name, bundle_desc) ==
    [tag |-> "opml", type |-> "", version |-> "2.0", text |-> "",
     kids |-> <<HeadElem(<<Title(bundle_name), Elem("description", "", bundle_desc, <<>>)>>),
                BodyElem(MergeLoop(files, <<>>, source_files))>>]

\* merge_opml_files(source_files, bundle_name, bundle_desc): the root element
merge_opml_files(files, source_files, bundle_name, bundle_desc) ==
    [tag |-> "opml", type |-> "", version |-> "2.0", text |-> "",
     kids |-> <<HeadElem(<<Title(bundle_name)>>),
                BodyElem(MergeLoop(files, <<>>, source_files))>>]

\* ET.indent(tree, space="    "); tree.write(output_path, ...)
WrittenFile(tree) == [wf |-> TRUE, space |-> "4sp", root |-> tree]

\* (mutation of write_tree: the file opened in append mode, so that writing
\* to an existing file leaves two documents in it)
write_tree_append(files, output_path, tree) ==
    [p \in DOMAIN files \cup {output_path} |->
        IF p # output_path THEN files[p]
        ELSE IF p \in DOMAIN files THEN [WrittenFile(tree) EXCEPT !.wf = FALSE]
        ELSE WrittenFile(tree)]

write_tree(files, output_path, tree) ==
    [p \in DOMAIN files \cup {output_path} |->
        IF p = output_path THEN WrittenFile(tree) ELSE files[p]]

\* (mutation of feed_count_of: findall("body/outline[@type='rss']"), which
\* sees the body's direct children only)
feed_count_direct(merged_opml) ==
    LET body == find(merged_opml, "body")[1].kids
    IN Cardinality({i \in 1..Len(body) : IsRssOutline(body[i])})

\* len(merged_opml.findall(".//outline[@type='rss']"))
feed_count_of(merged_opml) == count_rss(merged_opml)

Outcome(ret, files, merged, feed_count) ==
    [ret |-> ret, fs |-> files, merged |-> merged, feed_count |-> feed_count]

\* build_bundle(config_file) on the file system `files`; a configuration file
\* is [yaml, map]: yaml "error" when open or yaml.safe_load raises, "null"
\* when the document is empty (safe_load returns None), "map" for a mapping
build_bundle(files, config_file) ==
    IF config_file.yaml # "map" THEN Outcome(FALSE, files, <<>>, <<>>)
    ELSE
    LET config == config_file.map
        bundle_name == Get(config, "name", "Unnamed Bundle")
        bundle_desc == Get(config, "description", "")
        output_file == Get(config, "output", <<"bundle.opml.xml">>)
        source_files == Get(config, "sources", <<>>)
        merged_opml == merge_opml_files(files, source_files, bundle_name, bundle_desc)
        output_path == OutputPath(output_file)
    IN IF ~CanWrite(output_path) THEN Outcome(FALSE, files, <<merged_opml>>, <<>>)
       ELSE Outcome(TRUE, write_tree(files, output_path, merged_opml),
                    <<merged_opml>>, <<feed_count_of(merged_opml)>>)

\* the record of one call of build_bundle
Call(files, config_file) ==
    LET r == build_bundle(files, config_file) IN
    [config_file |-> config_file, before |-> files, ret |-> r.ret,
     after |-> r.fs, merged |-> r.merged, feed_count |-> r.feed_count]

-----------------------------------------------------------------------------
(* Repositories and bundle specifications build_bundle is run on *)

PathOut == <<"dist", "out.opml.xml">>

Doc(head, body) == Elem("opml", "", "", <<HeadElem(head), BodyElem(body)>>)

DocA == Doc(<<Title("A")>>, <<Feed("a1"), Group("ga", <<Feed("a2"), Link("a3")>>)>>)

DocB == Doc(<<Title("B")>>, <<Link("b1"), Feed("b2")>>)

\* a document with feeds but no body
DocC == Elem("opml", "", "", <<HeadElem(<<Title("C"), Feed("c1")>>), Feed("c2")>>)

\* a bundle written by an earlier run
OldOut == WrittenFile(merge_opml_files((PathB :> SourceFile(DocB)), <<PathB>>, "Old", ""))

Opt(key, values) == {<< >>} \cup {key :> v : v \in values}

BuildFileSystems ==
    {a @@ b @@ o : a \in Opt(PathA, {Malformed, SourceFile(DocA)}),
                   b \in Opt(PathB, {SourceFile(DocB), SourceFile(DocC)}),
                   o \in Opt(PathOut, {OldOut})}

SourceNames == {PathA, PathB, PathOut}

OutputNames == {<<"out.opml.xml">>, <<"nodir", "out.opml.xml">>, <<"..", "a.opml.xml">>}

Descriptions == {"", "News"}

ConfigMaps ==
    {n @@ d @@ o @@ s : n \in Opt("name", {"Tech"}),
                        d \in Opt("description", Descriptions),
                        o \in Opt("output", OutputNames),
                        s \in Opt("sources", SeqsUpTo(SourceNames, MaxSources))}

ConfigFile(yaml, map) == [yaml |-> yaml, map |-> map]

ConfigFiles ==
    {ConfigFile("error", << >>), ConfigFile("null", << >>)}
    \cup {ConfigFile("map", m) : m \in ConfigMaps}

\* build_bundle called MaxRuns times in succession on one configuration file
InitTwice ==
    /\ fs \in BuildFileSystems
    /\ \E c \in ConfigFiles : bundles = <<(<<c>>)>>
    /\ args = [validate_only |-> FALSE, build_only |-> TRUE]
    /\ pc = "build"
    /\ opml_files = <<>>
    /\ idx = 1
    /\ all_valid = TRUE
    /\ success = TRUE
    /\ validated = <<>>
    /\ built = <<>>
    /\ exit = <<>>

CallBuild ==
    /\ pc = "build"
    /\ Len(built) < MaxRuns
    /\ built' = Append(built, Call(fs, bundles[1][1]))
    /\ fs' = built'[Len(built')].after
    /\ UNCHANGED <<bundles, args, pc, opml_files, idx, all_valid, success, validated, exit>>

NextTwice == CallBuild

SpecTwice == InitTwice /\ [][NextTwice]_vars

\* build_bundle called on two configuration files, each on the same repository
WithDescription(m, d) == d @@ [k \in DOMAIN m \ {"description"} |-> m[k]]

InitTwin ==
    /\ fs \in BuildFileSystems
    /\ \E c \in ConfigFiles, d \in Opt("description", Descriptions) :
          bundles = <<(<<c, ConfigFile(c.yaml, WithDescription(c.map, d))>>)>>
    /\ args = [validate_only |-> FALSE, build_only |-> TRUE]
    /\ pc = "twin"
    /\ opml_files = <<>>
    /\ idx = 1
    /\ all_valid = TRUE
    /\ success = TRUE
    /\ validated = <<>>
    /\ built = <<>>
    /\ exit = <<>>

CallTwin ==
    /\ pc = "twin"
    /\ idx <= Len(bundles[1])
    /\ built' = Append(built, Call(fs, bundles[1][idx]))
    /\ idx' = idx + 1
    /\ UNCHANGED <<fs, bundles, args, pc, opml_files, all_valid, success, validated, exit>>

NextTwin == CallTwin

SpecTwin == InitTwin /\ [][NextTwin]_vars

-----------------------------------------------------------------------------
(* build_all_bundles and main *)

\* (mutation of UpdateSuccess: the last bundle's result wins)
UpdateSuccessLast(ok, ret) == ret

\* if not self.build_bundle(config_file): success = False
UpdateSuccess(ok, ret) == IF ~ret THEN FALSE ELSE ok

\* if not is_valid: all_valid = False
UpdateAllValid(valid, is_valid) == IF ~is_valid THEN FALSE ELSE valid

\* (mutation of ValidationAborts: the run goes on after a failed validation)
ValidationNeverAborts(valid) == FALSE

\* if not all_valid: return 1
ValidationAborts(valid) == ~valid

\* (mutation of BuildExit: the result of build_all_bundles ignored)
BuildExitIgnored(ok) == 0

\* main's return value once the build phase has run
BuildExit(ok) == IF ~ok THEN 1 ELSE 0

\* base_dir.glob("*.opml.xml"): the files at the repository root
RootFiles(files) == {p \in DOMAIN files : Len(p) = 1}

\* list(glob(...)): the matches, in the order the directory yields them
Listings(S) ==
    {l \in [1..Cardinality(S) -> S] : \A i, j \in DOMAIN l : l[i] = l[j] => i = j}

MainFileSystems ==
    {a @@ b : a \in Opt(PathA, {Malformed, SourceFile(DocA), SourceFile(DocC)}),
              b \in Opt(PathB, {SourceFile(DocB)})}

MainConfigFiles ==
    {ConfigFile("error", << >>),
     ConfigFile("map", [sources |-> <<PathA, PathB>>]),
     ConfigFile("map", [output |-> <<"nodir", "out.opml.xml">>, sources |-> <<PathA>>]),
     ConfigFile("map", [name |-> "Tech", output |-> <<"..", "a.opml.xml">>,
                        sources |-> <<PathB>>])}

InitMain ==
    /\ fs \in MainFileSystems
    /\ bundles \in {<<>>} \cup {<<l>> : l \in SeqsUpTo(MainConfigFiles, MaxBundles)}
    /\ args \in [validate_only : BOOLEAN, build_only : BOOLEAN]
    /\ pc = "start"
    /\ opml_files = <<>>
    /\ idx = 1
    /\ all_valid = TRUE
    /\ success = TRUE
    /\ validated = <<>>
    /\ built = <<>>
    /\ exit = <<>>

\* if not args.build_only: false, the validation phase is skipped
SkipValidation ==
    /\ pc = "start"
    /\ args.build_only
    /\ pc' = "build_phase"
    /\ UNCHANGED <<fs, bundles, args, opml_files, idx, all_valid, success,
                   validated, built, exit>>

\* opml_files = list(base_dir.glob("*.opml.xml")); return 1 when there is none
StartValidation ==
    /\ pc = "start"
    /\ ~args.build_only
    /\ opml_files' \in Listings(RootFiles(fs))
    /\ idx' = 1
    /\ IF opml_files' = <<>>
       THEN pc' = "done" /\ exit' = <<1>>
       ELSE pc' = "validating" /\ exit' = exit
    /\ UNCHANGED <<fs, bundles, args, all_valid, success, validated, built>>

\* one iteration of: for opml_file in opml_files
ValidateFile ==
    /\ pc = "validating"
    /\ idx <= Len(opml_files)
    /\ LET r == validate_opml(fs, opml_files[idx]) IN
          /\ validated' = Append(validated, r)
          /\ all_valid' = UpdateAllValid(all_valid, r.valid)
    /\ idx' = idx + 1
    /\ UNCHANGED <<fs, bundles, args, pc, opml_files, success, built, exit>>

\* after the loop: return 1 when some document was invalid
EndValidation ==
    /\ pc = "validating"
    /\ idx > Len(opml_files)
    /\ IF ValidationAborts(all_valid)
       THEN pc' = "done" /\ exit' = <<1>>
       ELSE pc' = "build_phase" /\ exit' = exit
    /\ UNCHANGED <<fs, bundles, args, opml_files, idx, all_valid, success,
                   validated, built>>

\* if not args.validate_only: false, the build phase is skipped; return 0
SkipBuild ==
    /\ pc = "build_phase"
    /\ args.validate_only
    /\ pc' = "done"
    /\ exit' = <<0>>
    /\ UNCHANGED <<fs, bundles, args, opml_files, idx, all_valid, success,
                   validated, built>>

\* build_all_bundles up to its loop: False (main returns 1) when bundles/ is
\* missing or holds no *.yaml file
StartBuild ==
    /\ pc = "build_phase"
    /\ ~args.validate_only
    /\ idx' = 1
    /\ success' = TRUE
    /\ IF bundles = <<>> \/ bundles[1] = <<>>
       THEN pc' = "done" /\ exit' = <<BuildExit(FALSE)>>
       ELSE pc' = "building" /\ exit' = exit
    /\ UNCHANGED <<fs, bundles, args, opml_files, all_valid, validated, built>>

\* one iteration of: for config_file in bundle_configs
BuildOne ==
    /\ pc = "building"
    /\ idx <= Len(bundles[1])
    /\ LET c == Call(fs, bundles[1][idx]) IN
          /\ built' = Append(built, c)
          /\ fs' = c.after
          /\ success' = UpdateSuccess(success, c.ret)
    /\ idx' = idx + 1
    /\ UNCHANGED <<bundles, args, pc, opml_files, all_valid, validated, exit>>

\* build_all_bundles returns success; main returns 1 or 0
EndBuild ==
    /\ pc = "building"
    /\ idx > Len(bundles[1])
    /\ pc' = "done"
    /\ exit' = <<BuildExit(success)>>
    /\ UNCHANGED <<fs, bundles, args, opml_files, idx, all_valid, success,
                   validated, built>>

NextMain ==
    \/ SkipValidation
    \/ StartValidation
    \/ ValidateFile
    \/ EndValidation
    \/ SkipBuild
    \/ StartBuild
    \/ BuildOne
    \/ EndBuild

SpecMain == InitMain /\ [][NextMain]_vars

-----------------------------------------------------------------------------
(* Vocabulary of the properties, defined apart from the operators above *)

\* every element below e, at any depth, in document order
RECURSIVE Descendants(_)
RECURSIVE DescendantsOf(_)
DescendantsOf(kids) ==
    IF kids = <<>> THEN <<>>
    ELSE <<kids[1]>> \o Descendants(kids[1]) \o DescendantsOf(Tail(kids))

Descendants(e) == DescendantsOf(e.kids)

\* the number of entries with type="rss" at any depth under e
FeedsUnder(e) ==
    LET d == Descendants(e)
    IN Cardinality({i \in 1..Len(d) : d[i].tag = "outline" /\ d[i].type = "rss"})

HasChild(e, tag) == \E i \in 1..Len(e.kids) : e.kids[i].tag = tag

\* the first child of e with that tag
Child(e, tag) ==
    e.kids[CHOOSE i \in 1..Len(e.kids) :
              /\ e.kids[i].tag = tag
              /\ \A j \in 1..(i - 1) : e.kids[j].tag # tag]

\* the document validate_opml was called on, when the file parses
Parsed == PathA \in DOMAIN fs /\ fs[PathA].wf

TheDoc == fs[PathA].root

Validated == validated # <<>>

TheResult == validated[1]

ValidDocument ==
    /\ Parsed
    /\ TheDoc.tag = "opml"
    /\ HasChild(TheDoc, "head")
    /\ HasChild(TheDoc, "body")
    /\ FeedsUnder(Child(TheDoc, "body")) >= 1

\* C1 (as claimed): for every valid document, validate_opml returns
\* (True, "") and reports the number of type="rss" entries under the body.
C1_Claim ==
    (Validated /\ ValidDocument) =>
        /\ TheResult.valid
        /\ TheResult.msg = <<>>
        /\ TheResult.printed = <<FeedsUnder(Child(TheDoc, "body"))>>

\* C2 (as claimed): for every document without a body child, validate_opml
\* returns (False, missing body), whatever its root tag, head and entries.
C2_Claim ==
    (Validated /\ Parsed /\ ~HasChild(TheDoc, "body")) =>
        /\ ~TheResult.valid
        /\ TheResult.msg = MsgBody

\* C2 (amended): for every document without a body child, validate_opml
\* returns False; the reason is the missing-body reason exactly when the root
\* tag is "opml" and a head child is present, the wrong-root reason naming
\* the tag when the root tag is not "opml", and the missing-head reason when
\* the root is "opml" and there is no head.
C2_NoBodyIsInvalid ==
    (Validated /\ Parsed /\ ~HasChild(TheDoc, "body")) =>
        /\ ~TheResult.valid
        /\ TheResult.printed = <<>>
        /\ TheResult.msg =
              IF TheDoc.tag # "opml" THEN MsgRoot(TheDoc.tag)
              ELSE IF ~HasChild(TheDoc, "head") THEN MsgHead
              ELSE MsgBody

\* a document with root "opml", a head, feeds outside any body and no body
\* has been rejected for its missing body
C2_Witness ==
    /\ Validated /\ Parsed
    /\ TheDoc.tag = "opml"
    /\ HasChild(TheDoc, "head")
    /\ ~HasChild(TheDoc, "body")
    /\ FeedsUnder(TheDoc) > 0
    /\ TheResult = Result(FALSE, MsgBody, <<>>)

\* C3 (as claimed): for a document with root "opml", a head and a body,
\* validate_opml returns (False, no feeds found) whenever no type="rss" entry
\* lies under the body, wherever else such entries occur.
C3_Claim ==
    (/\ Validated /\ Parsed
     /\ TheDoc.tag = "opml"
     /\ HasChild(TheDoc, "head")
     /\ HasChild(TheDoc, "body")
     /\ FeedsUnder(Child(TheDoc, "body")) = 0) =>
        /\ ~TheResult.valid
        /\ TheResult.msg = MsgNoFeeds

-----------------------------------------------------------------------------
(* Properties of build_bundle *)

IsSpecification(r) == r.config_file.yaml = "map"

NameOf(r) ==
    IF "name" \in DOMAIN r.config_file.map THEN r.config_file.map["name"]
    ELSE "Unnamed Bundle"

SourcesOf(r) ==
    IF "sources" \in DOMAIN r.config_file.map THEN r.config_file.map["sources"]
    ELSE <<>>

OutputOf(r) ==
    OutputPath(IF "output" \in DOMAIN r.config_file.map
               THEN r.config_file.map["output"] ELSE <<"bundle.opml.xml">>)

\* the source exists and parses without error
Loaded(files, source) == source \in DOMAIN files /\ files[source].wf

\* the direct children of the source's body, <<>> when it contributes nothing
Contribution(files, source) ==
    IF Loaded(files, source) /\ HasChild(files[source].root, "body")
    THEN Child(files[source].root, "body").kids
    ELSE <<>>

\* k_i: the type="rss" entries under the source's body
FeedsOf(files, source) ==
    IF Loaded(files, source) /\ HasChild(files[source].root, "body")
    THEN FeedsUnder(Child(files[source].root, "body"))
    ELSE 0

RECURSIVE SumTo(_, _)
SumTo(f, n) == IF n = 0 THEN 0 ELSE f[n] + SumTo(f, n - 1)

ExpectedFeeds(r) ==
    LET src == SourcesOf(r)
    IN SumTo([i \in 1..Len(src) |-> FeedsOf(r.before, src[i])], Len(src))

\* what the output file holds after the call, <<>> when there is none
OutputAfter(r) == IF OutputOf(r) \in DOMAIN r.after THEN <<r.after[OutputOf(r)]>> ELSE <<>>

\* C4 (as claimed): for every bundle specification, build_bundle returns True
\* and the output's feed count is the sum of k_i over the loaded sources.
C4_Claim ==
    \A i \in 1..Len(built) :
        IsSpecification(built[i]) =>
            /\ built[i].ret
            /\ built[i].feed_count = <<ExpectedFeeds(built[i])>>

\* C4 (amended): for every bundle specification whose name and output are
\* strings and whose sources are a list of path strings, build_bundle returns
\* True exactly when the output file can be written (its directory exists);
\* then the feed count it reports, and the feed count of the document it
\* wrote, is the sum of k_i over the sources that exist and parse; a missing
\* or unparsable source contributes 0 and changes nothing else, and when no
\* source is loaded the written body is empty.
C4_FeedCountIsSum ==
    \A i \in 1..Len(built) :
        LET r == built[i] IN
        IsSpecification(r) =>
            /\ r.ret = (SubSeq(OutputOf(r), 1, Len(OutputOf(r)) - 1) \in {<<>>, <<"dist">>})
            /\ r.ret =>
                  /\ r.feed_count = <<ExpectedFeeds(r)>>
                  /\ OutputAfter(r) # <<>>
                  /\ OutputAfter(r)[1].wf
                  /\ FeedsUnder(Child(OutputAfter(r)[1].root, "body")) = ExpectedFeeds(r)
                  /\ (\A k \in 1..Len(SourcesOf(r)) : ~Loaded(r.before, SourcesOf(r)[k]))
                        => Child(OutputAfter(r)[1].root, "body").kids = <<>>

\* a bundle whose first source is missing or unparsable was built, and its
\* second source gave it two feeds, one of them nested in a group
C4_Witness ==
    \E i \in 1..Len(built) :
        LET r == built[i] IN
        /\ IsSpecification(r) /\ r.ret
        /\ Len(SourcesOf(r)) = 2
        /\ ~Loaded(r.before, SourcesOf(r)[1])
        /\ r.feed_count = <<2>>

\* C5: the merged body is the concatenation, in sources order, of the direct
\* children of each loaded source's body, each in document order.
C5_BodyIsConcatenation ==
    \A i \in 1..Len(built) :
        LET r == built[i] IN
        (IsSpecification(r) /\ r.merged # <<>>) =>
            LET src == SourcesOf(r)
                part == [k \in 1..Len(src) |-> Contribution(r.before, src[k])]
                len == [k \in 1..Len(src) |-> Len(part[k])]
                body == Child(r.merged[1], "body").kids
            IN /\ Len(body) = SumTo(len, Len(src))
               /\ \A k \in 1..Len(src) : \A j \in 1..Len(part[k]) :
                     body[SumTo(len, k - 1) + j] = part[k][j]

\* a source with two entries was listed twice and gave four entries
C5_Witness ==
    \E i \in 1..Len(built) :
        LET r == built[i] IN
        /\ IsSpecification(r) /\ r.merged # <<>>
        /\ Len(SourcesOf(r)) = 2
        /\ SourcesOf(r)[1] = SourcesOf(r)[2]
        /\ Len(Contribution(r.before, SourcesOf(r)[1])) = 2
        /\ Len(Child(r.merged[1], "body").kids) = 4

ReadsOwnOutput(r) == \E k \in 1..Len(SourcesOf(r)) : SourcePath(SourcesOf(r)[k]) = OutputOf(r)

Texts(e) == {e.text} \cup {Descendants(e)[i].text : i \in 1..Len(Descendants(e))}

\* C10: two specifications that differ only in description give the same
\* result and the same output: root "opml" version "2.0", a head whose single
\* child is the title holding the name, the merged body; no description.
C10_DescriptionIgnored ==
    Len(built) = 2 =>
        /\ built[1].ret = built[2].ret
        /\ built[1].after = built[2].after
        /\ built[1].merged = built[2].merged
        /\ \A i \in 1..2 :
              LET r == built[i] IN
              (IsSpecification(r) /\ r.ret) =>
                 LET out == OutputAfter(r)[1].root IN
                 /\ out.tag = "opml" /\ out.version = "2.0"
                 /\ Len(out.kids) = 2
                 /\ out.kids[1].tag = "head"
                 /\ Len(out.kids[1].kids) = 1
                 /\ out.kids[1].kids[1].tag = "title"
                 /\ out.kids[1].kids[1].text = NameOf(r)
                 /\ out.kids[2].tag = "body"
                 /\ "News" \notin Texts(out)

\* one specification had the description "News", its twin had none, and both
\* wrote a bundle with entries
C10_Witness ==
    /\ Len(built) = 2
    /\ built[1].ret /\ built[2].ret
    /\ "description" \in DOMAIN built[1].config_file.map
    /\ built[1].config_file.map["description"] = "News"
    /\ "description" \notin DOMAIN built[2].config_file.map
    /\ Len(Child(OutputAfter(built[2])[1].root, "body").kids) > 0

-----------------------------------------------------------------------------
(* Properties of the driver *)

\* the repository as the run found it: only build_bundle writes
InitialFs == IF built = <<>> THEN fs ELSE built[1].before

Done == pc = "done"

NoInputDocument == RootFiles(InitialFs) = {}

SomeDocumentInvalid == \E i \in 1..Len(validated) : ~validated[i].valid

SomeBundleFailed == \E i \in 1..Len(built) : ~built[i].ret

\* C7 (as claimed): under every combination of the flags main returns 0 or 1,
\* and 1 if no input document is found, if any input document fails
\* validation, or if any bundle fails to build.
C7_Claim ==
    Done =>
        /\ exit \in {<<0>>, <<1>>}
        /\ (NoInputDocument \/ SomeDocumentInvalid \/ SomeBundleFailed) => exit = <<1>>

\* the validation phase returned 1
ValidationFailed ==
    /\ ~args.build_only
    /\ \/ NoInputDocument
       \/ \E p \in RootFiles(InitialFs) : ~validate_opml(InitialFs, p).valid

\* the build phase returned 1
BuildFailed ==
    /\ ~args.validate_only
    /\ \/ bundles = <<>>
       \/ bundles[1] = <<>>
       \/ SomeBundleFailed

\* C7 (amended): main always ends, with status 0 or 1 and no other.  It
\* returns 1 when validation is enabled (no --build-only) and no input
\* document is found or some input document fails validation; it returns 1
\* when validation did not end the run, building is enabled (no
\* --validate-only) and the bundles directory is missing, holds no
\* configuration file or some bundle fails to build; otherwise it returns 0.
\* With --build-only the input documents are not looked at.
C7_ExitStatus ==
    /\ ~Done => (exit = <<>> /\ ENABLED NextMain)
    /\ Done => exit = <<IF ValidationFailed \/ BuildFailed THEN 1 ELSE 0>>
    /\ (Done /\ ValidationFailed) => built = <<>>

\* --build-only on a repository without input documents: the bundles were
\* built and main returned 0
C7_Witness ==
    /\ Done
    /\ args.build_only /\ ~args.validate_only
    /\ NoInputDocument
    /\ Len(built) = 2
    /\ exit = <<0>>

\* C8: with validation enabled every discovered document is validated, once,
\* before any bundle is built; if a document is invalid or none is found main
\* returns non-zero and build_bundle is never called, so nothing is written;
\* with neither flag set both phases run, validation first.
C8_ValidationFirst ==
    ~args.build_only =>
        /\ (pc \in {"build_phase", "building"} \/ built # <<>>) =>
              /\ Len(validated) = Cardinality(RootFiles(InitialFs))
              /\ \A p \in RootFiles(InitialFs) : \E i \in 1..Len(opml_files) : opml_files[i] = p
              /\ validated # <<>>
              /\ \A i \in 1..Len(validated) : validated[i].valid
        /\ (Done /\ (NoInputDocument \/ SomeDocumentInvalid)) =>
              /\ Len(validated) = Cardinality(RootFiles(InitialFs))
              /\ exit = <<1>>
              /\ built = <<>>
        /\ (Done /\ ~args.validate_only /\ ~NoInputDocument /\ ~SomeDocumentInvalid
                 /\ bundles # <<>>) =>
              /\ Len(validated) = Cardinality(RootFiles(InitialFs))
              /\ Len(built) = Len(bundles[1])

\* two documents were found, the first one validated was invalid, the second
\* was validated all the same, and main returned 1 without building the
\* bundles that were there to build
C8_Witness ==
    /\ Done
    /\ ~args.build_only /\ ~args.validate_only
    /\ Len(validated) = 2
    /\ ~validated[1].valid /\ validated[2].valid
    /\ bundles # <<>> /\ Len(bundles[1]) = 2
    /\ built = <<>>
    /\ exit = <<1>>

\* C9: every discovered bundle specification is built exactly once, in order,
\* whatever the earlier bundles did; a bundle whose configuration cannot be
\* loaded or whose build raises returns False; build_all_bundles returns True
\* only if every bundle returned True.
C9_EveryBundleBuilt ==
    /\ \A i \in 1..Len(built) :
          /\ built[i].config_file = bundles[1][i]
          /\ built[i].ret \in BOOLEAN
          /\ built[i].config_file.yaml # "map" => ~built[i].ret
    /\ pc = "building" => Len(built) = idx - 1
    /\ (Done /\ built # <<>>) =>
          /\ Len(built) = Len(bundles[1])
          /\ success = (\A i \in 1..Len(built) : built[i].ret)
          /\ exit = <<IF success THEN 0 ELSE 1>>

\* the first bundle failed, the second was built all the same and succeeded,
\* and the run reported failure
C9_Witness ==
    /\ Done
    /\ Len(built) = 2
    /\ ~built[1].ret /\ built[2].ret
    /\ built[2].after # built[2].before
    /\ ~success
    /\ exit = <<1>>

====
